---- MODULE Spec2Model ----
(***************************************************************************)
(* A model of the envfile crate (src/src/lib.rs): parse_line, EnvFile::new *)
(* (load), EnvFile::update, EnvFile::get and EnvFile::write, over byte     *)
(* strings.  Bytes and characters are their numeric codes, strings are     *)
(* sequences of codes.  The only non-ASCII byte of the model is 0xFF,      *)
(* which never occurs in valid UTF-8.                                      *)
(*                                                                         *)
(* unescape and escape are the functions of the external snailquote crate  *)
(* that lib.rs imports (line 34) and calls (lines 57 and 100); they are    *)
(* modelled by what the crate does on the characters of the model.         *)
(***************************************************************************)
EXTENDS Integers, Sequences, FiniteSets, TLC

\* ---------------------------------------------------------------- bytes
TAB == 9
LF == 10
CR == 13
SP == 32
DQ == 34
HASH == 35
SQ == 39
EQ == 61
LetterA == 65
BS == 92
LetterN == 110
BAD == 255

\* ---------------------------------------------------------------- bounds
\* The longest line given to parse_line alone.
MaxLineLen == 4
\* The longest file loaded, written and loaded again.
MaxFileLen == 4
\* The longest file a store that is then updated is loaded from.
MaxSeedLen == 3
\* The number of update calls in one run.
MaxUpdates == 2

\* ------------------------------------------------------------- Option<T>
None == [some |-> FALSE]
Some(x) == [some |-> TRUE, val |-> x]

\* --------------------------------------------------------- string helpers
Strings(alphabet, n) == UNION {[1..k -> alphabet] : k \in 0..n}

Range(s) == {s[i] : i \in DOMAIN s}

Slice(s, a, b) == IF a > b THEN <<>> ELSE SubSeq(s, a, b)

\* Iterator::position: the index of the first element equal to c, or 0.
\* (PositionLast is the faulty variant that finds the last one: rposition.)
PositionLast(s, c) ==
    IF c \in Range(s)
    THEN CHOOSE i \in DOMAIN s : s[i] = c /\ \A j \in (i + 1)..Len(s) : s[j] # c
    ELSE 0

Position(s, c) ==
    IF c \in Range(s)
    THEN CHOOSE i \in DOMAIN s : s[i] = c /\ \A j \in 1..(i - 1) : s[j] # c
    ELSE 0

\* Ord for String / [u8]: lexicographic order of the bytes.
LexLess(a, b) ==
    \E i \in 1..(Len(b)) :
        /\ \A j \in 1..(i - 1) : j <= Len(a) /\ a[j] = b[j]
        /\ \/ i = Len(a) + 1
           \/ i <= Len(a) /\ a[i] < b[i]

\* str::from_utf8 on the bytes of the model: ASCII is valid, 0xFF never is.
Utf8Valid(bytes) == \A i \in DOMAIN bytes : bytes[i] < 128

\* char::is_whitespace on the characters of the model (White_Space).
IsWhitespace(c) == c \in {TAB, LF, 11, 12, CR, SP}

\* str::trim: drop leading and trailing White_Space.
\* (TrimStartOnly is the faulty variant trim_start.)
TrimStartOnly(s) ==
    LET keep == {i \in DOMAIN s : ~IsWhitespace(s[i])}
    IN  IF keep = {} THEN <<>>
        ELSE Slice(s, CHOOSE i \in keep : \A j \in keep : i <= j, Len(s))

Trim(s) ==
    LET keep == {i \in DOMAIN s : ~IsWhitespace(s[i])}
    IN  IF keep = {} THEN <<>>
        ELSE Slice(s, CHOOSE i \in keep : \A j \in keep : i <= j,
                      CHOOSE i \in keep : \A j \in keep : i >= j)

\* ----------------------------------------------------- snailquote::unescape
\* The escapes a backslash introduces between double quotes.
EscapeTable ==
    [c \in {97, 98, 118, 102, LetterN, 114, 116, 101, 69, BS, SQ, DQ, 36, 96, SP} |->
        CASE c = 97 -> 7
          [] c = 98 -> 8
          [] c = 118 -> 11
          [] c = 102 -> 12
          [] c = LetterN -> LF
          [] c = 114 -> CR
          [] c = 116 -> TAB
          [] c \in {101, 69} -> 27
          [] OTHER -> c]

RECURSIVE unescapeFrom(_, _, _, _)
unescapeFrom(s, i, mode, res) ==
    IF i > Len(s) THEN Some(res)
    ELSE LET c == s[i] IN
      CASE mode = "single" ->
             IF c = SQ THEN unescapeFrom(s, i + 1, "none", res)
             ELSE unescapeFrom(s, i + 1, mode, Append(res, c))
        [] mode = "double" ->
             IF c = DQ THEN unescapeFrom(s, i + 1, "none", res)
             ELSE IF c = BS
             THEN IF i + 1 > Len(s) THEN None
                  ELSE IF s[i + 1] \in DOMAIN EscapeTable
                       THEN unescapeFrom(s, i + 2, mode,
                                         Append(res, EscapeTable[s[i + 1]]))
                       ELSE None
             ELSE unescapeFrom(s, i + 1, mode, Append(res, c))
        [] OTHER ->
             IF c = SQ THEN unescapeFrom(s, i + 1, "single", res)
             ELSE IF c = DQ THEN unescapeFrom(s, i + 1, "double", res)
             ELSE unescapeFrom(s, i + 1, mode, Append(res, c))

\* Result<String, UnescapeError> as an Option: None is Err.
unescape(s) == unescapeFrom(s, 1, "none", <<>>)

\* ------------------------------------------------------- snailquote::escape
\* Characters that force quoting but may stand between single quotes.
ShellSpecial == {DQ, SP, HASH, 36, 96, 40, 41, 38, 126, 59, 42, 63, 33, 91, 62, 60, 124}

\* Separators and control characters: quoted and never single-quotable.
IsOtherOrSeparator(c) == c < 32 \/ c = 127

NeedsQuoting(s) ==
    \E i \in DOMAIN s :
        s[i] \in ShellSpecial \cup {SQ, BS} \/ IsOtherOrSeparator(s[i])

SingleQuotable(s) ==
    \A i \in DOMAIN s : s[i] \notin {SQ, BS} /\ ~IsOtherOrSeparator(s[i])

\* escape_character for the control characters of the model.
EscapeCharacter(c) ==
    CASE c = LF -> <<BS, LetterN>>
      [] c = CR -> <<BS, 114>>
      [] c = TAB -> <<BS, 116>>
      [] c = 7 -> <<BS, 97>>
      [] c = 8 -> <<BS, 98>>
      [] c = 11 -> <<BS, 118>>
      [] c = 12 -> <<BS, 102>>
      [] c = 27 -> <<BS, 101>>
      [] OTHER -> <<c>>

RECURSIVE DoubleQuoteBody(_)
DoubleQuoteBody(s) ==
    IF s = <<>> THEN <<>>
    ELSE LET c == Head(s) IN
         (CASE c = DQ -> <<BS, DQ>>
            [] c = BS -> <<BS, BS>>
            [] c = SP -> <<SP>>
            [] c = 36 -> <<BS, 36>>
            [] c = 96 -> <<BS, 96>>
            [] IsOtherOrSeparator(c) -> EscapeCharacter(c)
            [] OTHER -> <<c>>) \o DoubleQuoteBody(Tail(s))

escape(s) ==
    IF ~NeedsQuoting(s) THEN s
    ELSE IF SingleQuotable(s) THEN <<SQ>> \o s \o <<SQ>>
    ELSE <<DQ>> \o DoubleQuoteBody(s) \o <<DQ>>

\* --------------------------------------------------------------- parse_line
\* Some(<<key, value>>) or None.  Lines 54-55 decode the two halves of a
\* line already known to be valid text, split at an ASCII byte: they succeed.
\* (parse_line_NoCommentCheck is the faulty variant without lines 49-51,
\* parse_line_SkipEmptyValue the one that drops a line ending in its '='.)
parse_line_NoCommentCheck(entry) ==
    IF ~Utf8Valid(entry) THEN None
    ELSE LET line == Trim(entry)
             pos == Position(line, EQ)
         IN  IF pos = 0 THEN None
             ELSE LET x == Slice(line, 1, pos - 1)
                      right == Slice(line, pos + 1, Len(line))
                      y == unescape(right)
                  IN  IF y.some THEN Some(<<x, y.val>>) ELSE None

parse_line_SkipEmptyValue(entry) ==
    IF ~Utf8Valid(entry) THEN None
    ELSE LET line == Trim(entry)
             pos == Position(line, EQ)
         IN  IF line # <<>> /\ line[1] = HASH THEN None
             ELSE IF pos = 0 \/ pos = Len(line) THEN None
             ELSE LET x == Slice(line, 1, pos - 1)
                      right == Slice(line, pos + 1, Len(line))
                      y == unescape(right)
                  IN  IF y.some THEN Some(<<x, y.val>>) ELSE None

parse_line(entry) ==
    IF ~Utf8Valid(entry) THEN None
    ELSE LET line == Trim(entry)
             pos == Position(line, EQ)
         IN  IF line # <<>> /\ line[1] = HASH THEN None
             ELSE IF pos = 0 THEN None
             ELSE LET x == Slice(line, 1, pos - 1)
                      right == Slice(line, pos + 1, Len(line))
                      y == unescape(right)
                  IN  IF y.some THEN Some(<<x, y.val>>) ELSE None

\* --------------------------------------------------------------------- state
VARIABLES
    line,      \* the bytes handed to parse_line (one line, no newline)
    parsed,    \* what parse_line returned for it
    file,      \* the bytes of the file at EnvFile::path
    store,     \* EnvFile::store, a map from key to value
    phase,     \* where the run is: see the actions
    dirty,     \* an update happened since the store was loaded
    snapshot,  \* the store as it was at the write, while "written"/"reloaded"
    op,        \* the last operation and its arguments
    lastGet,   \* what get returned, when get is the last operation
    nupd       \* the number of update calls so far

vars == <<line, parsed, file, store, phase, dirty, snapshot, op, lastGet, nupd>>

\* BTreeMap::new()
EmptyMap == [k \in {} |-> <<>>]

\* BTreeMap::insert: add the key, or replace the value it has.
\* (InsertKeepFirst is the faulty variant entry(k).or_insert(v).)
InsertKeepFirst(m, k, v) ==
    [x \in DOMAIN m \cup {k} |-> IF x \in DOMAIN m THEN m[x] ELSE v]

Insert(m, k, v) ==
    [x \in DOMAIN m \cup {k} |-> IF x = k THEN v ELSE m[x]]

\* slice::split(|&x| x == b'\n'): the segments between newlines.
RECURSIVE Split(_)
Split(data) ==
    LET p == Position(data, LF)
    IN  IF p = 0 THEN <<data>>
        ELSE <<Slice(data, 1, p - 1)>> \o Split(Slice(data, p + 1, Len(data)))

\* The loop of EnvFile::new over flat_map(parse_line): insert every pair,
\* in the order of the lines.  (LoadLinesStopAtBad is the faulty variant
\* that ends the loop at the first line without a pair.)
RECURSIVE LoadLines(_, _)
LoadLines(m, lines) ==
    IF lines = <<>> THEN m
    ELSE LET r == parse_line(Head(lines))
         IN  LoadLines(IF r.some THEN Insert(m, r.val[1], r.val[2]) ELSE m,
                       Tail(lines))

RECURSIVE LoadLinesStopAtBad(_, _)
LoadLinesStopAtBad(m, lines) ==
    IF lines = <<>> THEN m
    ELSE LET r == parse_line(Head(lines))
         IN  IF r.some
             THEN LoadLinesStopAtBad(Insert(m, r.val[1], r.val[2]), Tail(lines))
             ELSE m

LoadStoreStopAtBad(data) == LoadLinesStopAtBad(EmptyMap, Split(data))

LoadStore(data) == LoadLines(EmptyMap, Split(data))

\* Iteration over a BTreeMap: the keys in ascending order.
RECURSIVE SortedKeys(_)
SortedKeys(S) ==
    IF S = {} THEN <<>>
    ELSE LET k == CHOOSE x \in S : \A y \in S \ {x} : LexLess(x, y)
         IN  <<k>> \o SortedKeys(S \ {k})

\* The buffer EnvFile::write builds: key, '=', escape(value), '\n' per entry.
\* (SerializeRaw is the faulty variant that writes the value unescaped.)
RECURSIVE SerializeRaw(_, _)
SerializeRaw(m, keys) ==
    IF keys = <<>> THEN <<>>
    ELSE Head(keys) \o <<EQ>> \o m[Head(keys)] \o <<LF>>
         \o SerializeRaw(m, Tail(keys))

RECURSIVE Serialize(_, _)
Serialize(m, keys) ==
    IF keys = <<>> THEN <<>>
    ELSE Head(keys) \o <<EQ>> \o escape(m[Head(keys)]) \o <<LF>>
         \o Serialize(m, Tail(keys))

WriteBufferRaw(m) == SerializeRaw(m, SortedKeys(DOMAIN m))

WriteBuffer(m) == Serialize(m, SortedKeys(DOMAIN m))

\* EnvFile::get
get(m, key) == IF key \in DOMAIN m THEN Some(m[key]) ELSE None

\* ------------------------------------------------------------------- inputs
LineAlphabet == {LetterA, LetterN, EQ, HASH, SP, TAB, CR, SQ, DQ, BS, BAD}
FileAlphabet == {LetterA, LetterN, EQ, HASH, SP, LF, CR, SQ, DQ, BS, BAD}
SeedAlphabet == {LetterA, EQ, LF}
\* The arguments of update and get are &str: any text, valid UTF-8.
UpdateKeys == {<<LetterA>>, <<HASH, LetterA>>, <<LetterA, EQ>>, <<LF>>}
UpdateValues == {<<>>, <<SP, BS>>}
GetKeys == UpdateKeys \cup {<<>>}

NoOp == [name |-> "none", key |-> <<>>, value |-> <<>>]

\* ------------------------------------------------------------------ actions
\* parse_line applied to one line.
ParseLine ==
    /\ phase = "line"
    /\ parsed' = parse_line(line)
    /\ phase' = "parsed"
    /\ UNCHANGED <<line, file, store, dirty, snapshot, op, lastGet, nupd>>

\* EnvFile::new(path): read the file and build the store.  A load that
\* follows a write of the same path is the fresh load ("reloaded").  The
\* file exists and is readable: an I/O error of read() leaves no store.
New ==
    /\ phase \in {"unloaded", "loaded", "written", "reloaded"}
    /\ store' = LoadStore(file)
    /\ phase' = IF phase = "written" THEN "reloaded" ELSE "loaded"
    /\ dirty' = FALSE
    /\ snapshot' = IF phase = "written" THEN snapshot ELSE EmptyMap
    /\ op' = [name |-> "new", key |-> <<>>, value |-> <<>>]
    /\ lastGet' = None
    /\ UNCHANGED <<line, parsed, file, nupd>>

\* EnvFile::update(key, value).  At most MaxUpdates calls in a run.
\* (updateNoOverwrite is the faulty variant that keeps a value already there.)
updateNoOverwrite(key, value) ==
    /\ phase \in {"loaded", "written", "reloaded"}
    /\ nupd < MaxUpdates
    /\ nupd' = nupd + 1
    /\ store' = InsertKeepFirst(store, key, value)
    /\ phase' = "loaded"
    /\ dirty' = TRUE
    /\ snapshot' = EmptyMap
    /\ op' = [name |-> "update", key |-> key, value |-> value]
    /\ lastGet' = None
    /\ UNCHANGED <<line, parsed, file>>

update(key, value) ==
    /\ phase \in {"loaded", "written", "reloaded"}
    /\ nupd < MaxUpdates
    /\ nupd' = nupd + 1
    /\ store' = Insert(store, key, value)
    /\ phase' = "loaded"
    /\ dirty' = TRUE
    /\ snapshot' = EmptyMap
    /\ op' = [name |-> "update", key |-> key, value |-> value]
    /\ lastGet' = None
    /\ UNCHANGED <<line, parsed, file>>

Update == \E key \in UpdateKeys, value \in UpdateValues : update(key, value)

\* EnvFile::get(key)
Get ==
    \E key \in GetKeys :
        /\ phase \in {"loaded", "written", "reloaded"}
        /\ lastGet' = get(store, key)
        /\ op' = [name |-> "get", key |-> key, value |-> <<>>]
        /\ UNCHANGED <<line, parsed, file, store, phase, dirty, snapshot, nupd>>

\* EnvFile::write(): replace the file by the serialized store.
Write ==
    /\ phase \in {"loaded", "written", "reloaded"}
    /\ file' = WriteBuffer(store)
    /\ snapshot' = store
    /\ phase' = "written"
    /\ op' = [name |-> "write", key |-> <<>>, value |-> <<>>]
    /\ lastGet' = None
    /\ UNCHANGED <<line, parsed, store, dirty, nupd>>

\* ------------------------------------------------------------ specifications
InitCommon ==
    /\ parsed = None
    /\ store = EmptyMap
    /\ dirty = FALSE
    /\ snapshot = EmptyMap
    /\ op = NoOp
    /\ lastGet = None
    /\ nupd = 0

\* parse_line on every line up to MaxLineLen bytes.
InitParse ==
    /\ line \in Strings(LineAlphabet, MaxLineLen)
    /\ file = <<>>
    /\ phase = "line"
    /\ InitCommon

NextParse == ParseLine

SpecParse == InitParse /\ [][NextParse]_vars

\* Load, write and load again, from every file up to MaxFileLen bytes.
InitLoad ==
    /\ line = <<>>
    /\ file \in Strings(FileAlphabet, MaxFileLen)
    /\ phase = "unloaded"
    /\ InitCommon

NextLoad == New \/ Write

SpecLoad == InitLoad /\ [][NextLoad]_vars

\* Every operation in any order, from every file up to MaxSeedLen bytes.
Init ==
    /\ line = <<>>
    /\ file \in Strings(SeedAlphabet, MaxSeedLen)
    /\ phase = "unloaded"
    /\ InitCommon

Next == New \/ Update \/ Get \/ Write

Spec == Init /\ [][Next]_vars

\* ------------------------------------------------------------------- claims
\* Helpers of the statements below, written without Trim, Position and
\* parse_line so that the statements do not restate the model.
Whitespace == {SP, TAB, CR}

RECURSIVE StripStart(_)
StripStart(s) ==
    IF s # <<>> /\ Head(s) \in Whitespace THEN StripStart(Tail(s)) ELSE s

RECURSIVE StripEnd(_)
StripEnd(s) ==
    IF s # <<>> /\ s[Len(s)] \in Whitespace
    THEN StripEnd(SubSeq(s, 1, Len(s) - 1))
    ELSE s

StripWs(s) == StripEnd(StripStart(s))

Count(s, c) == Cardinality({i \in DOMAIN s : s[i] = c})

\* The first non-whitespace character is '#', or there is none.
IsCommentOrBlank(l) ==
    LET t == StripStart(l) IN t = <<>> \/ Head(t) = HASH

NotCommentOrBlank(l) == ~IsCommentOrBlank(l)

\* What follows the first '=' of the stripped line.
AfterFirstEq(l) ==
    LET t == StripWs(l)
        i == CHOOSE i \in DOMAIN t : t[i] = EQ /\ \A j \in 1..(i - 1) : t[j] # EQ
    IN  IF i = Len(t) THEN <<>> ELSE SubSeq(t, i + 1, Len(t))

\* Not valid text, no '=', or a value that does not unescape.
IsBadLine(l) ==
    \/ BAD \in Range(l)
    \/ EQ \notin Range(l)
    \/ ~unescape(AfterFirstEq(l)).some

NotBadLine(l) == ~IsBadLine(l)

RECURSIVE JoinLines(_)
JoinLines(ls) ==
    IF ls = <<>> THEN <<>>
    ELSE IF Len(ls) = 1 THEN ls[1]
    ELSE ls[1] \o <<LF>> \o JoinLines(Tail(ls))

SameMap(a, b) == DOMAIN a = DOMAIN b /\ \A k \in DOMAIN a : a[k] = b[k]

\* C1: for a store produced by load, write() followed by a fresh load of the
\* same path yields exactly the mapping held before the write.
C1_WriteReloadIdentity ==
    phase = "reloaded" => store = snapshot

C1_Witness ==
    /\ phase = "reloaded"
    /\ store = snapshot
    /\ \E k \in DOMAIN store : LF \in Range(store[k])
    /\ \E k \in DOMAIN store : store[k] # <<>> /\ escape(store[k]) # store[k]

\* C2: after any sequence of load and update operations, the bytes written
\* are exactly one line KEY=ESCAPED_VALUE\n per entry, in strictly ascending
\* key order, and no written line is a comment or a blank line.
C2_CanonicalWrite ==
    phase = "written" =>
        LET lines == Split(file)
            keys == SortedKeys(DOMAIN store)
        IN  /\ Len(lines) = Len(keys) + 1
            /\ lines[Len(lines)] = <<>>
            /\ \A i \in 1..Len(keys) :
                   lines[i] = keys[i] \o <<EQ>> \o escape(store[keys[i]])
            /\ \A i, j \in 1..Len(keys) : i < j => LexLess(keys[i], keys[j])
            /\ \A i \in 1..Len(keys) : ~IsCommentOrBlank(lines[i])

\* C3: after load and any updates with arbitrary keys and values, write()
\* followed by a fresh load returns exactly the entries of the store at the
\* time of the write.
C3_UpdateWriteReload ==
    phase = "reloaded" => SameMap(store, snapshot)

\* C4: parse_line splits at the first '=' of the trimmed line: the key is what
\* precedes it and has no '=', the value is the unescaped rest, which keeps
\* every further '='; a line without '=' yields no pair.
C4_SplitAtFirstEq ==
    phase = "parsed" =>
        /\ EQ \notin Range(line) => parsed = None
        /\ parsed.some =>
             LET t == StripWs(line)
                 key == parsed.val[1]
                 value == parsed.val[2]
             IN  /\ EQ \notin Range(key)
                 /\ Len(t) >= Len(key) + 1
                 /\ SubSeq(t, 1, Len(key)) = key
                 /\ t[Len(key) + 1] = EQ
                 /\ unescape(SubSeq(t, Len(key) + 2, Len(t))) = Some(value)
                 /\ Count(value, EQ) = Count(t, EQ) - 1

C4_Witness ==
    /\ phase = "parsed"
    /\ parsed.some
    /\ Count(line, EQ) >= 2
    /\ parsed.val[1] # <<>>
    /\ EQ \in Range(parsed.val[2])

\* C5: a line whose trimmed content starts with '#' or is empty yields no
\* pair, even with '=' in it, and adds no entry to the loaded store.
C5_CommentsAndBlanksSkipped ==
    op.name = "new" =>
        LET lines == Split(file)
        IN  /\ \A i \in DOMAIN lines :
                   IsCommentOrBlank(lines[i]) => parse_line(lines[i]) = None
            /\ store = LoadLines(EmptyMap, SelectSeq(lines, NotCommentOrBlank))

C5_Witness ==
    /\ op.name = "new"
    /\ store # EmptyMap
    /\ \E i \in DOMAIN Split(file) :
           /\ IsCommentOrBlank(Split(file)[i])
           /\ HASH \in Range(Split(file)[i])
           /\ EQ \in Range(Split(file)[i])

\* C6: a line that is not valid text, has no '=' or whose value does not
\* unescape is skipped, and the loaded mapping is the one loaded from the
\* same file with those lines removed.
C6_BadLinesSkipped ==
    op.name = "new" =>
        LET lines == Split(file)
        IN  /\ \A i \in DOMAIN lines :
                   IsBadLine(lines[i]) => parse_line(lines[i]) = None
            /\ store = LoadStore(JoinLines(SelectSeq(lines, NotBadLine)))

C6_Witness ==
    /\ op.name = "new"
    /\ store # EmptyMap
    /\ \E i, j \in DOMAIN Split(file) :
           /\ i < j
           /\ IsBadLine(Split(file)[i])
           /\ EQ \in Range(Split(file)[i])
           /\ parse_line(Split(file)[j]).some

\* C7: when a key appears on several lines, the loaded store holds one entry
\* for it, with the value of the last such line.
C7_LastLineWins ==
    op.name = "new" =>
        LET lines == Split(file)
            P(i) == parse_line(lines[i])
            pairs == {i \in DOMAIN lines : P(i).some}
        IN  /\ DOMAIN store = {P(i).val[1] : i \in pairs}
            /\ \A i \in pairs :
                   (\A j \in pairs : j > i => P(j).val[1] # P(i).val[1])
                       => store[P(i).val[1]] = P(i).val[2]

C7_Witness ==
    /\ op.name = "new"
    /\ \E i, j \in DOMAIN Split(file) :
           /\ i < j
           /\ parse_line(Split(file)[i]).some
           /\ parse_line(Split(file)[j]).some
           /\ parse_line(Split(file)[i]).val[1] = parse_line(Split(file)[j]).val[1]
           /\ parse_line(Split(file)[i]).val[2] # parse_line(Split(file)[j]).val[2]
           /\ store[parse_line(Split(file)[j]).val[1]] = parse_line(Split(file)[j]).val[2]

\* C8: after update(k, v), get(k) returns v and get(j) is unchanged for every
\* other key j; get does not change the store; a key is present only once a
\* load or an update of that key has put it there.
C8_UpdateGetFrame ==
    /\ [](phase = "unloaded" => DOMAIN store = {})
    /\ [][/\ op'.name = "update" =>
               /\ get(store', op'.key) = Some(op'.value)
               /\ \A j \in (DOMAIN store \cup DOMAIN store' \cup GetKeys) \ {op'.key} :
                      get(store', j) = get(store, j)
          /\ op'.name = "get" =>
               /\ store' = store
               /\ lastGet' = get(store, op'.key)
          /\ \A k \in DOMAIN store' \ DOMAIN store :
                 \/ op'.name = "new"
                 \/ op'.name = "update" /\ op'.key = k]_vars

C8_Witness ==
    /\ op.name = "get"
    /\ phase = "loaded"
    /\ dirty
    /\ nupd = 2
    /\ lastGet = Some(<<SP, BS>>)
    /\ \E j \in DOMAIN store : j # op.key /\ store[j] = <<>>

\* C9: whitespace around a line does not change its parse; a parsed key never
\* begins with whitespace and an unquoted value never ends with it.
C9_SurroundingWhitespaceIgnored ==
    phase = "parsed" =>
        /\ parsed = parse_line(StripWs(line))
        /\ parsed.some =>
             LET key == parsed.val[1]
                 value == parsed.val[2]
                 raw == AfterFirstEq(line)
             IN  /\ key = <<>> \/ key[1] \notin Whitespace
                 /\ (SQ \notin Range(raw) /\ DQ \notin Range(raw)) =>
                        (value = <<>> \/ value[Len(value)] \notin Whitespace)

C9_Witness ==
    /\ phase = "parsed"
    /\ parsed.some
    /\ Len(line) = 4
    /\ line[1] \in {SP, TAB}
    /\ line[4] = CR
    /\ parsed.val[2] # <<>>

\* C10: a line KEY= loads as an entry with the empty string as its value, and
\* after write() and a fresh load the key is still there with the empty string.
C10_EmptyValueKept ==
    /\ op.name = "new" =>
         LET lines == Split(file)
         IN  \A i \in DOMAIN lines :
                 LET t == StripWs(lines[i])
                     key == SubSeq(t, 1, Len(t) - 1)
                 IN  (/\ BAD \notin Range(t)
                      /\ t # <<>>
                      /\ t[1] # HASH
                      /\ t[Len(t)] = EQ
                      /\ EQ \notin Range(key)
                      /\ \A j \in DOMAIN lines :
                             j > i => ~(parse_line(lines[j]).some
                                        /\ parse_line(lines[j]).val[1] = key))
                     => get(store, key) = Some(<<>>)
    /\ phase = "reloaded" =>
         \A k \in DOMAIN snapshot : snapshot[k] = <<>> => get(store, k) = Some(<<>>)

C10_Witness ==
    /\ phase = "reloaded"
    /\ \E k \in DOMAIN snapshot :
           /\ k # <<>>
           /\ snapshot[k] = <<>>
           /\ get(store, k) = Some(<<>>)
           /\ Split(file)[1] = k \o <<EQ>>

====
